---- MODULE Spec2Model ----
(***************************************************************************)
(* A model of the NotebookBobu document API client (NotebookBobuClient,     *)
(* its helper functions and the integration scripts that call the service) *)
(* together with the remote service it talks to.                           *)
(*                                                                         *)
(* Strings that the code builds by interpolation are sequences of tokens:  *)
(* `HTTP ${status}: ${statusText}` is <<"HTTP ", "502", ": ", "Bad         *)
(* Gateway">>, and a message that is a single string is a one-token        *)
(* sequence.  The empty string is the empty sequence.                      *)
(***************************************************************************)
EXTENDS Integers, Sequences, FiniteSets, TLC

\* ---------------------------------------------------------------- bounds
NClients == 2
\* the requests that reach the server
NRequests == 3
MaxDocs == 2

\* ------------------------------------------------------------- constants
Absent == "<undefined>"
NoId == Absent
DefaultBaseUrl == "https://notebookbobu-g1wdc943m-sentinel-io.vercel.app"
ValidKey == "inbox-zero-api-key-2024"
BadKey == "invalid-key-12345"
Tokens == {ValidKey, BadKey}
InvalidKeyDetail == "Invalid API key"
NotFoundDetail == "Document not found"
NoDocumentsDetail == "No documents found to query"

Clients == 1..NClients
\* document ids are opaque strings; the service assigns "1", "2", ...
DocId(n) == ToString(n)
DocIds == {DocId(n) : n \in 1..MaxDocs}
\* ids a caller may name: every id the service can assign, and one it never assigns
IdArgs == DocIds \cup {"no-such-document"}

UploadOps == {"processDocument", "processDocumentV2"}
ListOps == {"getDocuments", "getDocumentsV2"}
GetOps == {"getDocument", "getDocumentV2"}
DeleteOps == {"deleteDocument", "deleteDocumentV2"}
IdOps == GetOps \cup DeleteOps
Ops == UploadOps \cup ListOps \cup IdOps \cup {"query", "getChatHistory"}

\* ------------------------------------------------------------- the inputs
BufferInput == [kind |-> "Buffer", name |-> Absent, type |-> Absent, bytes |-> "BUFFER-BYTES"]
FileInput == [kind |-> "File", name |-> "scan.docx", type |-> "application/msword", bytes |-> "FILE-BYTES"]
FileInputs == {BufferInput, FileInput}
NoFile == [kind |-> Absent, name |-> Absent, type |-> Absent, bytes |-> Absent]
Filenames == {"q4-report.pdf"}
Titles == {"Q4 2024 Business Report"}
Questions == {"", "What was the revenue for Q4?"}
\* documentIds?: undefined, the empty array, or an array of ids
NoDocumentIds == [present |-> FALSE, ids |-> << >>]
DocumentIdArgs == {NoDocumentIds, [present |-> TRUE, ids |-> << >>], [present |-> TRUE, ids |-> <<DocId(1)>>]}

VARIABLES
    baseUrl,    \* baseUrl[c]: the base URL of client instance c
    apiKey,     \* apiKey[c]: the credential of client instance c
    docs,       \* the document ids the service stores
    nextId,     \* the next id the service assigns
    pc,         \* where the operation in progress stands
    call,       \* the operation in progress: instance, name, arguments
    req,        \* the request handed to fetch
    resp,       \* the response (or network failure) fetch settled with
    outcome,    \* what the operation returned or threw
    nreq,       \* requests issued by the operation in progress
    prev,       \* the operation completed before the one in progress, if it changed the store
    script,     \* the calling function that runs (integration test or example)
    spc,        \* where that function stands
    idx,        \* the index of its loop
    documentId, \* its documentId / result.document_id
    processedDocs, \* inboxZeroWorkflow's processedDocs
    trace,      \* the requests the function has sent, in order
    reports,    \* what the function has logged per item, in order
    result,     \* what the function returned
    passed,     \* runAllTests' passed
    failed,     \* runAllTests' failed
    lastQuery,  \* what the query the function awaited last settled with
    unhandled,  \* the rejections no handler was attached to
    helper,     \* the helper function in progress and its arguments
    hout,       \* what the helper function returned or threw
    settles,    \* the resolve and reject calls made on the promise in progress
    app,        \* server.ts: the module's app
    inits,      \* the calls of payload.init so far
    handlers    \* handlers[h]: where the handling of incoming request h stands

clientVars == <<baseUrl, apiKey, docs, nextId, pc, call, req, resp, outcome, nreq, prev>>
callerVars == <<script, spc, idx, documentId, processedDocs, trace, reports, result,
                passed, failed, lastQuery, unhandled>>
helperVars == <<helper, hout, settles>>
serverVars == <<app, inits, handlers>>
vars == <<clientVars, callerVars, helperVars, serverVars>>

\* ------------------------------------------------------------ HTTP values
HeaderNames == {"Authorization", "Content-Type"}
NoHeaders == [h \in HeaderNames |-> << >>]
NoBody == [kind |-> Absent, question |-> Absent, document_ids |-> NoDocumentIds, parts |-> << >>]
NoOptions == [method |-> Absent, headers |-> NoHeaders, body |-> NoBody]

\* { ...defaults, ...given }: a header the caller gives replaces the default
MergeHeaders(defaults, given) ==
    [h \in HeaderNames |-> IF given[h] /= << >> THEN given[h] ELSE defaults[h]]

NoReq == [url |-> << >>, method |-> Absent, headers |-> NoHeaders, body |-> NoBody]
\* bullet_points (a string, held as its lines) and topics (an array): either may be undefined
NoLines == [present |-> FALSE, lines |-> << >>]
NoTopics == [present |-> FALSE, items |-> << >>]
\* the status values of DocumentResponse
Lifecycle == {"uploaded", "processing", "completed", "failed"}
NoPayload == [kind |-> Absent, id |-> NoId, ids |-> {}, hasDocument |-> FALSE, answer |-> Absent,
              status |-> Absent]
\* a document read in full: the payload with its derived fields
NoDocument == [kind |-> Absent, id |-> NoId, ids |-> {}, hasDocument |-> FALSE, answer |-> Absent,
               status |-> Absent, summary |-> Absent, bullet_points |-> NoLines,
               topics |-> NoTopics, confidence |-> Absent]
NoResp == [from |-> Absent, status |-> 0, statusText |-> Absent,
           json |-> FALSE, detail |-> Absent, raw |-> Absent, payload |-> NoPayload]
NoOutcome == [kind |-> "none", name |-> Absent, message |-> << >>, value |-> NoPayload]
NoCall == [client |-> 0, op |-> Absent, id |-> NoId, file |-> NoFile, filename |-> Absent,
           title |-> Absent, question |-> Absent, documentIds |-> NoDocumentIds, docsAt |-> {}]
NoPrev == [op |-> Absent, id |-> NoId, result |-> Absent]
\* server.ts: no Express app yet, and a request not yet arrived
NoApp == 0
Requests == 1..NRequests
NoHandler == [pc |-> "idle", expressApp |-> NoApp, served |-> NoApp]
NoHelper == [name |-> Absent, client |-> 0, file |-> NoFile, filename |-> Absent,
             emailSubject |-> Absent, documentId |-> NoId, question |-> Absent,
             documentIds |-> NoDocumentIds, baseUrl |-> Absent, apiKey |-> Absent,
             env |-> Absent, script |-> Absent, path |-> << >>, options |-> NoOptions,
             title |-> Absent]

StatusText(status) ==
    CASE status = 200 -> "OK"
      [] status = 401 -> "Unauthorized"
      [] status = 404 -> "Not Found"
      [] status = 422 -> "Unprocessable Entity"
      [] status = 500 -> "Internal Server Error"
      [] status = 502 -> "Bad Gateway"
      [] OTHER -> ""

\* response.ok
Ok(r) == r.status >= 200 /\ r.status < 300

Includes(message, token) == \E i \in DOMAIN message : message[i] = token

\* an outcome: the operation threw, or it returned a value
Threw(o) == o.kind = "threw"
Returned(o) == o.kind = "returned"

\* ------------------------------------------------- NotebookBobuClient
\* getDocument with the id left out of its path
EndpointNoId(op, id) ==
    CASE op = "processDocument" -> <<"/process">>
      [] op = "processDocumentV2" -> <<"/v2/process">>
      [] op = "getDocuments" -> <<"/documents">>
      [] op = "getDocumentsV2" -> <<"/v2/documents">>
      [] op = "getDocument" -> <<"/documents/", Absent>>
      [] op = "getDocumentV2" -> <<"/v2/documents/", Absent>>
      [] op = "deleteDocument" -> <<"/documents/", id>>
      [] op = "deleteDocumentV2" -> <<"/v2/documents/", id>>
      [] op = "query" -> <<"/query">>
      [] op = "getChatHistory" -> <<"/chat-history">>

\* the endpoint strings the public operations pass down
Endpoint(op, id) ==
    CASE op = "processDocument" -> <<"/process">>
      [] op = "processDocumentV2" -> <<"/v2/process">>
      [] op = "getDocuments" -> <<"/documents">>
      [] op = "getDocumentsV2" -> <<"/v2/documents">>
      [] op = "getDocument" -> <<"/documents/", id>>
      [] op = "getDocumentV2" -> <<"/v2/documents/", id>>
      [] op = "deleteDocument" -> <<"/documents/", id>>
      [] op = "deleteDocumentV2" -> <<"/v2/documents/", id>>
      [] op = "query" -> <<"/query">>
      [] op = "getChatHistory" -> <<"/chat-history">>

\* JSON.stringify({question, document_ids}): an undefined document_ids is left out
QueryBody(question, documentIds) ==
    [kind |-> "json", question |-> question, document_ids |-> documentIds, parts |-> << >>]

\* deleteDocument without its method: the request goes out as a GET
OptionsNoMethod(c) ==
    CASE c.op = "query" -> [NoOptions EXCEPT !.method = "POST",
                                            !.body = QueryBody(c.question, c.documentIds)]
      [] OTHER -> NoOptions

\* the RequestInit each public operation passes to request()
Options(c) ==
    CASE c.op \in DeleteOps -> [NoOptions EXCEPT !.method = "DELETE"]
      [] c.op = "query" -> [NoOptions EXCEPT !.method = "POST",
                                            !.body = QueryBody(c.question, c.documentIds)]
      [] OTHER -> NoOptions

\* the headers request() sends: Authorization and Content-Type, then options.headers
RequestHeaders(key, options) ==
    MergeHeaders([h \in HeaderNames |->
                     IF h = "Authorization" THEN <<"Bearer ", key>>
                     ELSE <<"application/json">>],
                 options.headers)

\* uploadFile() without its Authorization header
UploadHeadersNoAuth(key) == NoHeaders

\* the headers uploadFile() sends: Authorization alone
UploadHeaders(key) ==
    [h \in HeaderNames |-> IF h = "Authorization" THEN <<"Bearer ", key>> ELSE << >>]

Part(name, filename, contentType, content) ==
    [name |-> name, filename |-> filename, contentType |-> contentType, content |-> content]

\* the FormData uploadFile() builds: the file part, then the title part
FormData(file, filename, title) ==
    << IF file.kind = "Buffer"
         THEN Part("file", filename, "", file.bytes)
         ELSE Part("file", file.name, file.type, file.bytes),
       Part("title", Absent, Absent, title) >>

\* the fetch of request(): fetch(url, {...options, headers})
RequestFetch(c) ==
    LET options == Options(c) IN
    [url |-> <<baseUrl[c.client], "/api">> \o Endpoint(c.op, c.id),
     method |-> IF options.method = Absent THEN "GET" ELSE options.method,
     headers |-> RequestHeaders(apiKey[c.client], options),
     body |-> options.body]

\* processDocumentV2 handing uploadFile its title and filename the wrong way round
UploadFetchSwapped(c) ==
    [url |-> <<baseUrl[c.client], "/api">> \o Endpoint(c.op, c.id),
     method |-> "POST",
     headers |-> UploadHeaders(apiKey[c.client]),
     body |-> [NoBody EXCEPT !.kind = "multipart",
                             !.parts = IF c.op = "processDocumentV2"
                                         THEN FormData(c.file, c.title, c.filename)
                                         ELSE FormData(c.file, c.filename, c.title)]]

\* the fetch of uploadFile()
UploadFetch(c) ==
    [url |-> <<baseUrl[c.client], "/api">> \o Endpoint(c.op, c.id),
     method |-> "POST",
     headers |-> UploadHeaders(apiKey[c.client]),
     body |-> [NoBody EXCEPT !.kind = "multipart",
                             !.parts = FormData(c.file, c.filename, c.title)]]

Fetch(c) == IF c.op \in UploadOps THEN UploadFetch(c) ELSE RequestFetch(c)

\* String(x) of what new Error(x) is given: undefined gives the empty message
ErrorOf(detail) ==
    [kind |-> "threw", name |-> "Error",
     message |-> IF detail = <<Absent>> THEN << >> ELSE detail, value |-> NoPayload]

\* the status line used whatever the body holds
ErrorDetailStatusOnly(r) == <<"HTTP ", ToString(r.status), ": ", r.statusText>>

\* response.json().catch(() => ({detail: `HTTP ${status}: ${statusText}`})).detail
ErrorDetail(r) ==
    IF r.json THEN <<r.detail>>
    ELSE <<"HTTP ", ToString(r.status), ": ", r.statusText>>

\* the response.ok test left out: every response is parsed and returned
SettledUnchecked(r) ==
    IF r.from = "network"
      THEN [kind |-> "threw", name |-> "TypeError", message |-> <<"fetch failed">>,
            value |-> NoPayload]
    ELSE IF r.json THEN [kind |-> "returned", name |-> Absent, message |-> << >>,
                         value |-> r.payload]
    ELSE [kind |-> "threw", name |-> "SyntaxError",
          message |-> <<"Unexpected token">>, value |-> NoPayload]

\* the parsed body dropped: the operation resolves without its value
SettledDropsBody(r) ==
    IF r.from = "network"
      THEN [kind |-> "threw", name |-> "TypeError", message |-> <<"fetch failed">>,
            value |-> NoPayload]
    ELSE IF ~Ok(r) THEN ErrorOf(ErrorDetail(r))
    ELSE IF r.json THEN [kind |-> "returned", name |-> Absent, message |-> << >>,
                         value |-> NoPayload]
    ELSE [kind |-> "threw", name |-> "SyntaxError",
          message |-> <<"Unexpected token">>, value |-> NoPayload]

\* an empty list taken for a failure
SettledEmptyIsError(r) ==
    IF r.from = "network"
      THEN [kind |-> "threw", name |-> "TypeError", message |-> <<"fetch failed">>,
            value |-> NoPayload]
    ELSE IF ~Ok(r) THEN ErrorOf(ErrorDetail(r))
    ELSE IF r.json /\ r.payload.kind = "list" /\ r.payload.ids = {}
      THEN ErrorOf(<<"No documents">>)
    ELSE IF r.json THEN [kind |-> "returned", name |-> Absent, message |-> << >>,
                         value |-> r.payload]
    ELSE [kind |-> "threw", name |-> "SyntaxError",
          message |-> <<"Unexpected token">>, value |-> NoPayload]

\* what request() and uploadFile() do with the settled fetch
Settled(r) ==
    IF r.from = "network"
      THEN [kind |-> "threw", name |-> "TypeError", message |-> <<"fetch failed">>,
            value |-> NoPayload]
    ELSE IF ~Ok(r) THEN ErrorOf(ErrorDetail(r))
    ELSE IF r.json THEN [kind |-> "returned", name |-> Absent, message |-> << >>,
                         value |-> r.payload]
    ELSE [kind |-> "threw", name |-> "SyntaxError",
          message |-> <<"Unexpected token">>, value |-> NoPayload]

\* ------------------------------------------------------ the remote service
\* The service is not part of the client; it is modelled from its contract:
\* bearer authentication first, then the routes of the document store.
JsonOk(payload) ==
    [from |-> "service", status |-> 200, statusText |-> StatusText(200),
     json |-> TRUE, detail |-> Absent, raw |-> Absent, payload |-> payload]

JsonFail(status, detail) ==
    [from |-> "service", status |-> status, statusText |-> StatusText(status),
     json |-> TRUE, detail |-> detail, raw |-> Absent, payload |-> NoPayload]

Authorized(r) == r.headers["Authorization"] = <<"Bearer ", ValidKey>>

SupportedNames == {"q4-report.pdf", "scan.docx", "notes.txt", "readme.md"}

WellFormedUpload(r) ==
    /\ r.body.kind = "multipart"
    /\ \E i \in DOMAIN r.body.parts : r.body.parts[i].name = "title"
    /\ \E i \in DOMAIN r.body.parts :
          /\ r.body.parts[i].name = "file"
          /\ r.body.parts[i].filename \in SupportedNames

\* the documents a query searches: the ids it names, or all of them
Searched(r, d) ==
    IF r.body.document_ids.present /\ r.body.document_ids.ids /= << >>
      THEN {r.body.document_ids.ids[i] : i \in DOMAIN r.body.document_ids.ids} \cap d
      ELSE d

Route(r) == r.url[3]
RouteId(r) == IF Len(r.url) >= 4 THEN r.url[4] ELSE NoId

\* the reply to request r with d stored and n the next id: [resp, docs, nextId]
ServiceReply(r, d, n) ==
    LET keep(x) == [resp |-> x, docs |-> d, nextId |-> n] IN
    IF ~Authorized(r) THEN keep(JsonFail(401, InvalidKeyDetail))
    ELSE IF r.method = "POST" /\ Route(r) \in {"/process", "/v2/process"} THEN
        IF ~WellFormedUpload(r) THEN keep(JsonFail(422, "Unsupported or missing file"))
        ELSE [resp |-> JsonOk([NoPayload EXCEPT !.kind = "process", !.id = DocId(n),
                                                !.hasDocument = TRUE,
                                                !.status = "completed"]),
              docs |-> d \cup {DocId(n)}, nextId |-> n + 1]
    ELSE IF r.method = "GET" /\ Route(r) \in {"/documents", "/v2/documents"} THEN
        keep(JsonOk([NoPayload EXCEPT !.kind = "list", !.ids = d]))
    ELSE IF r.method = "GET" /\ Route(r) \in {"/documents/", "/v2/documents/"} THEN
        IF RouteId(r) \in d
          THEN keep(JsonOk([NoPayload EXCEPT !.kind = "document", !.id = RouteId(r),
                                             !.status = "completed"]))
          ELSE keep(JsonFail(404, NotFoundDetail))
    ELSE IF r.method = "DELETE" /\ Route(r) \in {"/documents/", "/v2/documents/"} THEN
        IF RouteId(r) \in d
          THEN [resp |-> JsonOk([NoPayload EXCEPT !.kind = "message"]),
                docs |-> d \ {RouteId(r)}, nextId |-> n]
          ELSE keep(JsonFail(404, NotFoundDetail))
    ELSE IF r.method = "POST" /\ Route(r) = "/query" THEN
        IF Searched(r, d) = {} THEN keep(JsonFail(404, NoDocumentsDetail))
        ELSE keep(JsonOk([NoPayload EXCEPT !.kind = "query", !.ids = Searched(r, d),
                                           !.answer = "an answer"]))
    ELSE IF r.method = "GET" /\ Route(r) = "/chat-history" THEN
        keep(JsonOk([NoPayload EXCEPT !.kind = "chat"]))
    ELSE keep(JsonFail(404, "Not Found"))

\* what stands between the client and the service can answer in its place
ProxyStatuses == {502}
\* a 2xx response whose body is not JSON
NonJsonOk ==
    [from |-> "proxy", status |-> 200, statusText |-> StatusText(200), json |-> FALSE,
     detail |-> Absent, raw |-> "<html>Sign in</html>", payload |-> NoPayload]
ProxyReplies ==
    {[from |-> "proxy", status |-> st, statusText |-> StatusText(st), json |-> j,
      detail |-> Absent, raw |-> IF j THEN "{\"error\":\"upstream\"}" ELSE "<html>Bad Gateway</html>",
      payload |-> NoPayload] : st \in ProxyStatuses, j \in BOOLEAN}
    \cup {NonJsonOk}

NetworkFailure == [NoResp EXCEPT !.from = "network"]

\* ------------------------------------------------------------- the calls
KeyOf(c) == IF c % 2 = 1 THEN ValidKey ELSE BadKey

UploadInputs ==
    {[file |-> BufferInput, filename |-> "q4-report.pdf"],
     [file |-> BufferInput, filename |-> "archive.zip"],
     [file |-> FileInput, filename |-> "q4-report.pdf"]}

Calls ==
    {[NoCall EXCEPT !.client = c, !.op = op, !.file = u.file, !.filename = u.filename,
                    !.title = t] : c \in Clients, op \in UploadOps, u \in UploadInputs, t \in Titles}
    \cup {[NoCall EXCEPT !.client = c, !.op = op] : c \in Clients, op \in ListOps \cup {"getChatHistory"}}
    \cup {[NoCall EXCEPT !.client = c, !.op = op, !.id = id] : c \in Clients, op \in IdOps, id \in IdArgs}
    \cup {[NoCall EXCEPT !.client = c, !.op = "query", !.question = q, !.documentIds = ids] :
             c \in Clients, q \in Questions, ids \in DocumentIdArgs}

\* what is remembered of a completed operation: one that changed the document
\* store (an upload or a delete that returned) with the id it was about, the
\* one it was given or the one it returned; nothing of any other
Summary(c, o) ==
    IF c.op \in UploadOps \cup DeleteOps /\ Returned(o)
      THEN [op |-> c.op,
            id |-> IF c.op \in UploadOps THEN o.value.id ELSE c.id,
            result |-> o.kind]
      ELSE NoPrev

InitClients ==
    /\ baseUrl = [c \in Clients |-> DefaultBaseUrl]
    /\ apiKey = [c \in Clients |-> KeyOf(c)]
    /\ docs = {}
    /\ nextId = 1
    /\ pc = "idle"
    /\ call = NoCall
    /\ req = NoReq
    /\ resp = NoResp
    /\ outcome = NoOutcome
    /\ nreq = 0
    /\ prev = NoPrev

InitCaller ==
    /\ script = Absent
    /\ spc = "idle"
    /\ idx = 0
    /\ documentId = Absent
    /\ processedDocs = << >>
    /\ trace = << >>
    /\ reports = << >>
    /\ result = Absent
    /\ passed = 0
    /\ failed = 0
    /\ lastQuery = NoOutcome
    /\ unhandled = << >>

InitHelper ==
    /\ helper = NoHelper
    /\ hout = NoOutcome
    /\ settles = << >>

InitServer ==
    /\ app = NoApp
    /\ inits = 0
    /\ handlers = [h \in Requests |-> NoHandler]

Init == InitClients /\ InitCaller /\ InitHelper /\ InitServer

\* a public operation is called: it runs up to its fetch
Invoke ==
    /\ pc \in {"idle", "done"}
    /\ \E c \in Calls :
          /\ c.op \in UploadOps => nextId <= MaxDocs
          /\ call' = [c EXCEPT !.docsAt = docs]
          /\ req' = Fetch(c)
    /\ prev' = IF pc = "done" THEN Summary(call, outcome) ELSE prev
    /\ nreq' = 1
    /\ resp' = NoResp
    /\ outcome' = NoOutcome
    /\ pc' = "awaiting"
    /\ UNCHANGED <<baseUrl, apiKey, docs, nextId, callerVars, helperVars, serverVars>>

\* the service answers the request in flight
Serve ==
    /\ pc = "awaiting"
    /\ LET reply == ServiceReply(req, docs, nextId) IN
          /\ resp' = reply.resp
          /\ docs' = reply.docs
          /\ nextId' = reply.nextId
    /\ pc' = "settled"
    /\ UNCHANGED <<baseUrl, apiKey, call, req, outcome, nreq, prev, callerVars, helperVars, serverVars>>

\* a gateway answers in the service's place
ProxyFail ==
    /\ pc = "awaiting"
    /\ resp' \in ProxyReplies
    /\ pc' = "settled"
    /\ UNCHANGED <<baseUrl, apiKey, docs, nextId, call, req, outcome, nreq, prev, callerVars, helperVars, serverVars>>

\* fetch rejects: no response arrives
NetworkFail ==
    /\ pc = "awaiting"
    /\ resp' = NetworkFailure
    /\ pc' = "settled"
    /\ UNCHANGED <<baseUrl, apiKey, docs, nextId, call, req, outcome, nreq, prev, callerVars, helperVars, serverVars>>

\* a failed response is sent again instead of being thrown
CompleteRetry ==
    /\ pc = "settled"
    /\ IF Settled(resp).kind = "threw" /\ nreq < 2
         THEN /\ nreq' = nreq + 1
              /\ resp' = NoResp
              /\ pc' = "awaiting"
              /\ UNCHANGED outcome
         ELSE /\ outcome' = Settled(resp)
              /\ pc' = "done"
              /\ UNCHANGED <<resp, nreq>>
    /\ UNCHANGED <<baseUrl, apiKey, docs, nextId, call, req, prev, callerVars, helperVars, serverVars>>

\* the credential forgotten once the service has rejected it
CompleteClearsKey ==
    /\ pc = "settled"
    /\ outcome' = Settled(resp)
    /\ pc' = "done"
    /\ apiKey' = IF resp.status = 401 THEN [apiKey EXCEPT ![call.client] = ""] ELSE apiKey
    /\ UNCHANGED <<baseUrl, docs, nextId, call, req, resp, nreq, prev, callerVars, helperVars, serverVars>>

\* the operation resumes after its await and returns or throws
Complete ==
    /\ pc = "settled"
    /\ outcome' = Settled(resp)
    /\ pc' = "done"
    /\ UNCHANGED <<baseUrl, apiKey, docs, nextId, call, req, resp, nreq, prev, callerVars, helperVars, serverVars>>

Next == Invoke \/ Serve \/ ProxyFail \/ NetworkFail \/ Complete

Spec == Init /\ [][Next]_vars

\* ------------------------------------------------------------ the callers
\* The integration tests (testCompleteWorkflow, testInboxZeroIntegration) call
\* the service through makeRequest and uploadDocument; the examples
\* (queryExample, inboxZeroWorkflow) call it through the client.  Each action
\* below is one awaited request of the function together with the code that
\* runs when it settles.
NTestQueries == 3
NQueries == 4
NQuestions == 3
NAttachments == 3

Scripts == {"testCompleteWorkflow", "testInboxZeroIntegration", "queryExample",
            "inboxZeroWorkflow", "runAllTests", "processAttachmentExample"}

\* the tests of runAllTests, in the order of its list
Tests == <<"testBasicAuth", "testDocumentsList", "testDocumentsV2List", "testQuery",
           "testInvalidAuth">>
NTests == Len(Tests)

\* the bodies a request of a caller can be answered with: a JSON object with
\* and without the nested object the caller reads (document, api_keys)
OkFull == [NoPayload EXCEPT !.kind = "ok", !.id = DocId(1), !.hasDocument = TRUE, !.answer = "an answer"]
OkBare == [NoPayload EXCEPT !.kind = "ok", !.id = DocId(1)]
CallerReplies ==
    {JsonOk(OkFull), JsonOk(OkBare), JsonFail(401, InvalidKeyDetail), JsonFail(404, NoDocumentsDetail)}
    \cup ProxyReplies \cup {NetworkFailure}

\* the documents a DocumentResponse can describe
Summaries == {Absent, "", "Revenue grew 12% in Q4."}
BulletPoints ==
    {NoLines, [present |-> TRUE, lines |-> <<"">>],
     [present |-> TRUE, lines |-> <<"- revenue up">>],
     [present |-> TRUE, lines |-> <<"- revenue up", "", "- costs down">>]}
TopicLists == {NoTopics, [present |-> TRUE, items |-> << >>],
               [present |-> TRUE, items |-> <<"finance">>]}
Confidences == {Absent, "high"}
Documents ==
    {[NoDocument EXCEPT !.kind = "document", !.id = DocId(1), !.status = st, !.summary = su,
                       !.bullet_points = bp, !.topics = tp, !.confidence = cf] :
        st \in Lifecycle, su \in Summaries, bp \in BulletPoints, tp \in TopicLists,
        cf \in Confidences}

FailureReplies ==
    {JsonFail(401, InvalidKeyDetail), JsonFail(404, NotFoundDetail),
     JsonFail(404, NoDocumentsDetail)} \cup ProxyReplies \cup {NetworkFailure}

\* what the operation a helper awaits can be answered with
HelperReplies(op) ==
    FailureReplies \cup
    CASE op = "processDocumentV2" -> {JsonOk(OkFull), JsonOk(OkBare)}
      [] op = "getDocumentV2" -> {JsonOk(d) : d \in Documents}
      [] op = "query" -> {JsonOk([NoPayload EXCEPT !.kind = "query", !.answer = a]) :
                            a \in {Absent, "an answer"}}

\* JSON.stringify(JSON.parse(data)): the body without its insignificant spaces
PrettyUpstream == "{ \"error\": \"upstream\" }"
Stringify(raw) ==
    CASE raw = PrettyUpstream -> "{\"error\":\"upstream\"}"
      [] OTHER -> raw

\* a call of resolve or of reject
ResolveWith(value, text) ==
    [fn |-> "resolve", value |-> value, text |-> text, name |-> Absent, message |-> << >>]
RejectWith(name, message) ==
    [fn |-> "reject", value |-> NoPayload, text |-> Absent, name |-> name, message |-> message]

\* the 'end' handler whose catch branch resolves whatever the status
OnEndUnchecked(r) ==
    IF r.json THEN
        IF Ok(r) THEN <<ResolveWith(r.payload, Absent)>>
        ELSE <<RejectWith("Error", <<"HTTP ", ToString(r.status), ": ",
                                     IF r.detail \notin {Absent, ""} THEN r.detail
                                     ELSE Stringify(r.raw)>>)>>
    ELSE <<ResolveWith([NoPayload EXCEPT !.kind = "text"], r.raw)>>

\* the 'end' handler of makeRequest and uploadDocument: the calls of resolve
\* and reject it makes for a response that has ended, in order
OnEnd(r) ==
    IF r.json THEN
        IF Ok(r) THEN <<ResolveWith(r.payload, Absent)>>
        ELSE <<RejectWith("Error", <<"HTTP ", ToString(r.status), ": ",
                                     IF r.detail \notin {Absent, ""} THEN r.detail
                                     ELSE Stringify(r.raw)>>)>>
    ELSE IF Ok(r) THEN <<ResolveWith([NoPayload EXCEPT !.kind = "text"], r.raw)>>
    ELSE <<RejectWith("Error", <<"HTTP ", ToString(r.status), ": ", r.raw>>)>>

\* req.on('error', reject)
OnError == RejectWith("Error", <<"socket hang up">>)

\* the promise takes the first call of resolve or reject and ignores the rest
PromiseOf(calls) ==
    [kind |-> IF calls[1].fn = "resolve" THEN "returned" ELSE "threw",
     name |-> calls[1].name, message |-> calls[1].message, value |-> calls[1].value]

\* makeRequest (and uploadDocument, which settles the same way): what the
\* promise settles with once the response has ended or the request has failed
MakeRequestSettled(r) ==
    PromiseOf(IF r.from = "network" THEN <<OnError>> ELSE OnEnd(r))

\* processEmailAttachment: the result of processDocumentV2, or its error rethrown
ProcessEmailAttachment(r) == Settled(r)

\* askQuestion with a catch that answers instead of rethrowing
AskQuestionSwallows(r) ==
    LET o == Settled(r) IN
    [kind |-> "returned", name |-> Absent, message |-> << >>,
     value |-> [NoPayload EXCEPT !.kind = "answer",
                                 !.answer = IF Threw(o) THEN "No answer available"
                                            ELSE o.value.answer]]

\* askQuestion: response.answer of query, or its error rethrown
AskQuestion(r) ==
    LET o == Settled(r) IN
    IF Threw(o) THEN o
    ELSE [o EXCEPT !.value = [NoPayload EXCEPT !.kind = "answer", !.answer = o.value.answer]]

NoInsights == [summary |-> Absent, keyPoints |-> << >>, topics |-> << >>, confidence |-> Absent]
\* x || fallback for a string that may be undefined or empty
OrElse(x, fallback) == IF x \in {Absent, ""} THEN fallback ELSE x
\* the lines of bullet_points kept as they are split, the empty ones included
KeyPointsUnfiltered(bp) ==
    IF bp.present /\ bp.lines /= <<"">> THEN bp.lines ELSE << >>

\* bullet_points.split('\n').filter(Boolean) over the lines of the string
KeyPoints(bp) ==
    IF bp.present /\ bp.lines /= <<"">>
      THEN SelectSeq(bp.lines, LAMBDA l : l /= "")
      ELSE << >>

\* getDocumentInsights: the fields picked from getDocumentV2's document, or
\* its error rethrown
GetDocumentInsights(r) ==
    LET o == Settled(r)
        doc == o.value IN
    IF Threw(o) THEN [o EXCEPT !.value = NoInsights]
    ELSE [o EXCEPT !.value =
             [summary |-> OrElse(doc.summary, "No summary available"),
              keyPoints |-> KeyPoints(doc.bullet_points),
              topics |-> IF doc.topics.present THEN doc.topics.items ELSE << >>,
              confidence |-> OrElse(doc.confidence, "unknown")]]

Sent(what, item, version, ids) ==
    Append(trace, [what |-> what, item |-> item, version |-> version, ids |-> ids])
Logged(item, status) == Append(reports, [item |-> item, status |-> status])
StatusOf(o) == IF Returned(o) THEN "success" ELSE "failure"

Start ==
    /\ spc = "idle"
    /\ \E s \in Scripts :
          /\ script' = s
          /\ spc' = CASE s = "testCompleteWorkflow" -> "tcw_upload"
                      [] s = "testInboxZeroIntegration" -> "tizi_upload"
                      [] s = "queryExample" -> "qex_ask"
                      [] s = "inboxZeroWorkflow" -> "izw_process"
                      [] s = "runAllTests" -> "rat_test"
                      [] s = "processAttachmentExample" -> "pae_process"
          /\ idx' = IF s \in {"queryExample", "inboxZeroWorkflow", "runAllTests"} THEN 1 ELSE 0
    /\ UNCHANGED <<documentId, processedDocs, trace, reports, result, passed, failed, lastQuery, unhandled, clientVars, helperVars, serverVars>>

\* testCompleteWorkflow, step 1: the upload through /process
TcwUpload ==
    /\ spc = "tcw_upload"
    /\ trace' = Sent("upload", 0, "v1", << >>)
    /\ \E r \in CallerReplies :
          LET o == MakeRequestSettled(r) IN
          IF Returned(o)
            THEN documentId' = o.value.id /\ spc' = "tcw_list" /\ UNCHANGED result
            ELSE spc' = "done" /\ result' = "false" /\ UNCHANGED documentId
    /\ UNCHANGED <<script, idx, processedDocs, reports, passed, failed, lastQuery, unhandled, clientVars, helperVars, serverVars>>

\* step 3: the list; a failure leaves for the outer catch
TcwList ==
    /\ spc = "tcw_list"
    /\ trace' = Sent("list", 0, "v1", << >>)
    /\ \E r \in CallerReplies :
          LET o == MakeRequestSettled(r) IN
          \* allDocuments.find throws when the body was not JSON
          IF Returned(o) /\ o.value.kind /= "text"
            THEN spc' = "tcw_query" /\ idx' = 1
            ELSE spc' = "tcw_cleanup" /\ UNCHANGED idx
    /\ UNCHANGED <<script, documentId, processedDocs, reports, result, passed, failed, lastQuery, unhandled, clientVars, helperVars, serverVars>>

\* step 5: one question of testQueries, inside its own try/catch
TcwQuery ==
    /\ spc = "tcw_query"
    /\ trace' = Sent("query", idx, "v1", <<documentId>>)
    /\ \E r \in CallerReplies :
          /\ lastQuery' = MakeRequestSettled(r)
          /\ reports' = Logged(idx, StatusOf(MakeRequestSettled(r)))
    /\ IF idx < NTestQueries THEN idx' = idx + 1 /\ UNCHANGED spc
                               ELSE spc' = "tcw_chat" /\ UNCHANGED idx
    /\ UNCHANGED <<script, documentId, processedDocs, result, passed, failed, unhandled, clientVars, helperVars, serverVars>>

\* step 6: the chat history, inside its own try/catch
TcwChat ==
    /\ spc = "tcw_chat"
    /\ trace' = Sent("chat", 0, "v1", << >>)
    /\ spc' = "tcw_delete"
    /\ UNCHANGED <<script, idx, documentId, processedDocs, reports, result, passed, failed, lastQuery, unhandled, clientVars, helperVars, serverVars>>

\* step 7: the cleanup delete, inside its own try/catch
TcwDelete ==
    /\ spc = "tcw_delete"
    /\ trace' = Sent("delete", 0, "v1", <<documentId>>)
    /\ spc' = "done"
    /\ result' = "true"
    /\ UNCHANGED <<script, idx, documentId, processedDocs, reports, passed, failed, lastQuery, unhandled, clientVars, helperVars, serverVars>>

\* the outer catch returning without its cleanup
TcwCleanupSkips ==
    /\ spc = "tcw_cleanup"
    /\ spc' = "done"
    /\ result' = "false"
    /\ UNCHANGED <<script, idx, documentId, processedDocs, trace, reports, passed, failed, lastQuery, unhandled, clientVars, helperVars, serverVars>>

\* the outer catch: cleanup through /v2/documents when documentId is set
TcwCleanup ==
    /\ spc = "tcw_cleanup"
    /\ trace' = IF documentId /= Absent THEN Sent("delete", 0, "v2", <<documentId>>) ELSE trace
    /\ spc' = "done"
    /\ result' = "false"
    /\ UNCHANGED <<script, idx, documentId, processedDocs, reports, passed, failed, lastQuery, unhandled, clientVars, helperVars, serverVars>>

\* testInboxZeroIntegration: the upload through /process
TiziUpload ==
    /\ spc = "tizi_upload"
    /\ trace' = Sent("upload", 0, "v1", << >>)
    /\ \E r \in CallerReplies :
          LET o == MakeRequestSettled(r) IN
          IF Returned(o)
            THEN documentId' = o.value.id /\ spc' = "tizi_query" /\ idx' = 1 /\ UNCHANGED result
            ELSE spc' = "done" /\ result' = "false" /\ UNCHANGED <<documentId, idx>>
    /\ UNCHANGED <<script, processedDocs, reports, passed, failed, lastQuery, unhandled, clientVars, helperVars, serverVars>>

\* one question of queries, inside its own try/catch
TiziQuery ==
    /\ spc = "tizi_query"
    /\ trace' = Sent("query", idx, "v1", <<documentId>>)
    /\ \E r \in CallerReplies :
          /\ lastQuery' = MakeRequestSettled(r)
          /\ reports' = Logged(idx, StatusOf(MakeRequestSettled(r)))
    /\ IF idx < NQueries THEN idx' = idx + 1 /\ UNCHANGED spc
                           ELSE spc' = "tizi_delete" /\ UNCHANGED idx
    /\ UNCHANGED <<script, documentId, processedDocs, result, passed, failed, unhandled, clientVars, helperVars, serverVars>>

\* the cleanup delete, inside its own try/catch
TiziDelete ==
    /\ spc = "tizi_delete"
    /\ trace' = Sent("delete", 0, "v1", <<documentId>>)
    /\ spc' = "done"
    /\ result' = "true"
    /\ UNCHANGED <<script, idx, documentId, processedDocs, reports, passed, failed, lastQuery, unhandled, clientVars, helperVars, serverVars>>

\* queryExample: one question of the loop; the try encloses the whole loop
QexAsk ==
    /\ spc = "qex_ask"
    /\ trace' = Sent("query", idx, "v1", << >>)
    /\ \E r \in CallerReplies :
          /\ lastQuery' = AskQuestion(r)
          /\ IF Returned(AskQuestion(r))
            THEN /\ reports' = Logged(idx, "success")
                 /\ IF idx < NQuestions THEN idx' = idx + 1 /\ UNCHANGED spc
                                         ELSE spc' = "done" /\ UNCHANGED idx
            ELSE /\ reports' = Logged(0, "failure")
                 /\ spc' = "done"
                 /\ UNCHANGED idx
    /\ result' = IF spc' = "done" THEN "returned" ELSE result
    /\ UNCHANGED <<script, documentId, processedDocs, passed, failed, unhandled, clientVars, helperVars, serverVars>>

\* the attachment loop stopped by the first failure
IzwProcessAbort ==
    /\ spc = "izw_process"
    /\ trace' = Sent("upload", idx, "v2", << >>)
    /\ \E r \in CallerReplies :
          LET o == ProcessEmailAttachment(r) IN
          IF Returned(o) /\ o.value.hasDocument
            THEN /\ processedDocs' = Append(processedDocs, o.value.id)
                 /\ reports' = Logged(idx, "success")
                 /\ IF idx < NAttachments THEN idx' = idx + 1 /\ UNCHANGED spc
                                           ELSE spc' = "izw_ask" /\ UNCHANGED idx
                 /\ UNCHANGED result
            ELSE /\ reports' = Logged(idx, "failure")
                 /\ spc' = "done"
                 /\ result' = "threw"
                 /\ UNCHANGED <<idx, processedDocs>>
    /\ UNCHANGED <<script, documentId, passed, failed, lastQuery, unhandled, clientVars, helperVars, serverVars>>

\* inboxZeroWorkflow: one attachment of the loop, inside its own try/catch.
\* result.document is pushed before result.document.id is read.
IzwProcess ==
    /\ spc = "izw_process"
    /\ trace' = Sent("upload", idx, "v2", << >>)
    /\ \E r \in CallerReplies :
          LET o == ProcessEmailAttachment(r) IN
          /\ processedDocs' =
                IF Returned(o)
                  THEN Append(processedDocs, IF o.value.hasDocument THEN o.value.id ELSE Absent)
                  ELSE processedDocs
          /\ reports' = Logged(idx, IF Returned(o) /\ o.value.hasDocument
                                       THEN "success" ELSE "failure")
    /\ IF idx < NAttachments THEN idx' = idx + 1 /\ UNCHANGED spc
                               ELSE spc' = "izw_ask" /\ UNCHANGED idx
    /\ UNCHANGED <<script, documentId, result, passed, failed, lastQuery, unhandled, clientVars, helperVars, serverVars>>

\* the combined question over processedDocs.map(doc => doc.id), outside any try
IzwAsk ==
    /\ spc = "izw_ask"
    /\ IF \E k \in DOMAIN processedDocs : processedDocs[k] = Absent
         THEN /\ spc' = "done"
              /\ result' = "threw"
              /\ UNCHANGED <<trace, lastQuery>>
         ELSE /\ trace' = Sent("query", 0, "v1", processedDocs)
              /\ \E r \in CallerReplies :
                    /\ lastQuery' = AskQuestion(r)
                    /\ IF Returned(AskQuestion(r))
                         THEN spc' = "izw_chat" /\ UNCHANGED result
                         ELSE spc' = "done" /\ result' = "threw"
    /\ UNCHANGED <<script, idx, documentId, processedDocs, reports, passed, failed, unhandled, clientVars, helperVars, serverVars>>

\* the chat history, outside any try
IzwChat ==
    /\ spc = "izw_chat"
    /\ trace' = Sent("chat", 0, "v1", << >>)
    /\ \E r \in CallerReplies :
          result' = IF Returned(Settled(r)) THEN "returned" ELSE "threw"
    /\ spc' = "done"
    /\ UNCHANGED <<script, idx, documentId, processedDocs, reports, passed, failed, lastQuery, unhandled, clientVars, helperVars, serverVars>>

\* what a test of runAllTests returns once its request has settled; each
\* test catches what its request or its own reads of the body throw
TestResult(test, o) ==
    CASE test = "testBasicAuth" ->
            IF Returned(o) /\ o.value.hasDocument THEN "true" ELSE "false"
      [] test \in {"testDocumentsList", "testDocumentsV2List"} ->
            IF Returned(o) THEN "true" ELSE "false"
      [] test = "testQuery" ->
            IF Returned(o) \/ Includes(o.message, NoDocumentsDetail) THEN "true" ELSE "false"
      [] test = "testInvalidAuth" ->
            IF Threw(o) /\ Includes(o.message, InvalidKeyDetail) THEN "true" ELSE "false"

\* the loop of runAllTests left at the first test that does not pass
RatTestStops ==
    /\ spc = "rat_test"
    /\ trace' = Sent(Tests[idx], idx, "v1", << >>)
    /\ \E r \in CallerReplies :
          LET o == MakeRequestSettled(r)
              res == TestResult(Tests[idx], o) IN
          /\ reports' = Logged(idx, IF res = "true" THEN "passed" ELSE "failed")
          /\ passed' = IF res = "true" THEN passed + 1 ELSE passed
          /\ failed' = IF res = "true" THEN failed ELSE failed + 1
          /\ lastQuery' = IF Tests[idx] = "testQuery" THEN o ELSE lastQuery
          /\ IF idx < NTests /\ res = "true"
               THEN idx' = idx + 1 /\ UNCHANGED <<spc, result>>
               ELSE /\ spc' = "done"
                    /\ result' = IF passed' = NTests THEN "true" ELSE "false"
                    /\ UNCHANGED idx
    /\ UNCHANGED <<script, documentId, processedDocs, unhandled, clientVars, helperVars, serverVars>>

\* runAllTests: one test of the loop, inside its own try/catch, and after the
\* last one the comparison of passed with the number of tests
RatTest ==
    /\ spc = "rat_test"
    /\ trace' = Sent(Tests[idx], idx, "v1", << >>)
    /\ \E r \in CallerReplies :
          LET o == MakeRequestSettled(r)
              res == TestResult(Tests[idx], o) IN
          /\ reports' = Logged(idx, IF res = "true" THEN "passed" ELSE "failed")
          /\ passed' = IF res = "true" THEN passed + 1 ELSE passed
          /\ failed' = IF res = "true" THEN failed ELSE failed + 1
          /\ lastQuery' = IF Tests[idx] = "testQuery" THEN o ELSE lastQuery
    /\ IF idx < NTests
         THEN idx' = idx + 1 /\ UNCHANGED <<spc, result>>
         ELSE /\ spc' = "done"
              /\ result' = IF passed' = NTests THEN "true" ELSE "false"
              /\ UNCHANGED idx
    /\ UNCHANGED <<script, documentId, processedDocs, unhandled, clientVars, helperVars, serverVars>>

\* processAttachmentExample: the upload and the reads of result.document,
\* inside the try; the timer is set as the last statement of the try block
PaeProcess ==
    /\ spc = "pae_process"
    /\ trace' = Sent("upload", 0, "v2", << >>)
    /\ \E r \in CallerReplies :
          LET o == ProcessEmailAttachment(r) IN
          IF Returned(o) /\ o.value.hasDocument
            THEN /\ documentId' = o.value.id
                 /\ reports' = Logged(0, "success")
                 /\ spc' = "pae_timer"
            ELSE /\ reports' = Logged(0, "failure")
                 /\ spc' = "done"
                 /\ UNCHANGED documentId
    /\ result' = "returned"
    /\ UNCHANGED <<script, idx, processedDocs, passed, failed, lastQuery, unhandled, clientVars, helperVars, serverVars>>

\* the timer callback, run after processAttachmentExample has returned: an
\* async function without a try, whose promise nobody awaits
PaeTimer ==
    /\ spc = "pae_timer"
    /\ trace' = Sent("get", 0, "v2", << >>)
    /\ \E r \in HelperReplies("getDocumentV2") :
          LET o == GetDocumentInsights(r) IN
          IF Threw(o)
            THEN /\ unhandled' = Append(unhandled, [name |-> o.name, message |-> o.message])
                 /\ UNCHANGED reports
            ELSE /\ reports' = Logged(0, "insights")
                 /\ UNCHANGED unhandled
    /\ spc' = "done"
    /\ UNCHANGED <<script, idx, documentId, processedDocs, result, passed, failed, lastQuery, clientVars, helperVars, serverVars>>

CallerNext ==
    \/ Start
    \/ TcwUpload \/ TcwList \/ TcwQuery \/ TcwChat \/ TcwDelete \/ TcwCleanup
    \/ TiziUpload \/ TiziQuery \/ TiziDelete
    \/ RatTest
    \/ QexAsk
    \/ IzwProcess \/ IzwAsk \/ IzwChat
    \/ PaeProcess \/ PaeTimer

CallerSpec == Init /\ [][CallerNext]_vars

\* ------------------------------------------------------------ the helpers
\* processEmailAttachment, getDocumentInsights and askQuestion each await one
\* operation of the client and work on what it settles with.
EmailSubjects == {"", "Q4 invoice"}
HelperCalls ==
    {[NoHelper EXCEPT !.name = "processEmailAttachment", !.client = c, !.file = f,
                      !.filename = "q4-report.pdf", !.emailSubject = e] :
        c \in Clients, f \in FileInputs, e \in EmailSubjects}
    \cup {[NoHelper EXCEPT !.name = "getDocumentInsights", !.client = c, !.documentId = id] :
             c \in Clients, id \in IdArgs}
    \cup {[NoHelper EXCEPT !.name = "askQuestion", !.client = c, !.question = q,
                           !.documentIds = ids] :
             c \in Clients, q \in Questions, ids \in DocumentIdArgs}

\* processEmailAttachment uploading through the v1 operation
ClientCallV1(h) ==
    CASE h.name = "processEmailAttachment" ->
            [NoCall EXCEPT !.client = h.client, !.op = "processDocument", !.file = h.file,
                           !.filename = h.filename, !.title = "Email: " \o h.emailSubject]
      [] h.name = "getDocumentInsights" ->
            [NoCall EXCEPT !.client = h.client, !.op = "getDocumentV2", !.id = h.documentId]
      [] h.name = "askQuestion" ->
            [NoCall EXCEPT !.client = h.client, !.op = "query", !.question = h.question,
                           !.documentIds = h.documentIds]

\* the operation of the client a helper awaits
ClientCall(h) ==
    CASE h.name = "processEmailAttachment" ->
            [NoCall EXCEPT !.client = h.client, !.op = "processDocumentV2", !.file = h.file,
                           !.filename = h.filename, !.title = "Email: " \o h.emailSubject]
      [] h.name = "getDocumentInsights" ->
            [NoCall EXCEPT !.client = h.client, !.op = "getDocumentV2", !.id = h.documentId]
      [] h.name = "askQuestion" ->
            [NoCall EXCEPT !.client = h.client, !.op = "query", !.question = h.question,
                           !.documentIds = h.documentIds]

HelperOutcome(name, r) ==
    CASE name = "processEmailAttachment" -> ProcessEmailAttachment(r)
      [] name = "getDocumentInsights" -> GetDocumentInsights(r)
      [] name = "askQuestion" -> AskQuestion(r)

\* a helper is called: it runs up to the fetch of the operation it awaits
HelperInvoke ==
    /\ pc \in {"idle", "done"}
    /\ \E h \in HelperCalls :
          /\ helper' = h
          /\ call' = ClientCall(h)
          /\ req' = Fetch(ClientCall(h))
    /\ nreq' = 1
    /\ resp' = NoResp
    /\ outcome' = NoOutcome
    /\ hout' = NoOutcome
    /\ pc' = "awaiting"
    /\ UNCHANGED <<baseUrl, apiKey, docs, nextId, prev, settles, callerVars, serverVars>>

\* the request settles: the operation returns or throws, then the helper does
HelperSettle ==
    /\ pc = "awaiting"
    /\ \E r \in HelperReplies(call.op) :
          /\ resp' = r
          /\ outcome' = Settled(r)
          /\ hout' = HelperOutcome(helper.name, r)
    /\ pc' = "done"
    /\ UNCHANGED <<baseUrl, apiKey, docs, nextId, call, req, nreq, prev, helper, settles,
                   callerVars, serverVars>>

HelperNext == HelperInvoke \/ HelperSettle

HelperSpec == Init /\ [][HelperNext]_vars

\* ------------------------------------------- makeRequest, uploadDocument
\* The promise-returning request functions of the test scripts.
WorkflowScript == "test-complete-workflow.js"
IntegrationScript == "test-integration.js"
\* API_BASE of each script
ApiBase(file) ==
    IF file = IntegrationScript THEN DefaultBaseUrl
    ELSE "https://notebookbobu-49fa1qs32-sentinel-io.vercel.app"

\* the request makeRequest hands to https.request, and the body it writes
MakeRequest(file, path, options) ==
    [url |-> <<ApiBase(file), "/api">> \o path,
     method |-> IF options.method = Absent THEN "GET" ELSE options.method,
     headers |-> MergeHeaders([h \in HeaderNames |->
                                  IF h = "Authorization" THEN <<"Bearer ", ValidKey>>
                                  ELSE IF file = IntegrationScript THEN <<"application/json">>
                                  ELSE << >>],
                              options.headers),
     body |-> options.body]

\* createMultipartBody({title}, {filename, content, contentType}): the fields
\* first, then the file
CreateMultipartBody(title, filename, content, contentType) ==
    << Part("title", Absent, Absent, title), Part("file", filename, contentType, content) >>

\* the request uploadDocument sends; its Content-Length is the length of the body
UploadDocument(endpoint, title, filename, content, contentType) ==
    [url |-> <<ApiBase(WorkflowScript), "/api">> \o endpoint,
     method |-> "POST",
     headers |-> [h \in HeaderNames |->
                     IF h = "Authorization" THEN <<"Bearer ", ValidKey>>
                     ELSE <<"multipart/form-data; boundary=", "----formdata-boundary-">>],
     body |-> [NoBody EXCEPT !.kind = "multipart",
                             !.parts = CreateMultipartBody(title, filename, content, contentType)]]

TextFile == [kind |-> "text", name |-> "test.txt", type |-> "text/plain",
             bytes |-> "This is a simple test document for NotebookBobu API integration."]

\* the calls the scripts make
MakeRequestCalls ==
    {[NoHelper EXCEPT !.name = "makeRequest", !.script = WorkflowScript, !.path = p,
                      !.options = o] :
        p \in {<<"/documents">>, <<"/chat-history">>}, o \in {NoOptions}}
    \cup {[NoHelper EXCEPT !.name = "makeRequest", !.script = WorkflowScript, !.path = p,
                           !.options = [NoOptions EXCEPT !.method = "DELETE"]] :
             p \in {<<"/documents/", DocId(1)>>, <<"/v2/documents/", DocId(1)>>}}
    \cup {[NoHelper EXCEPT !.name = "makeRequest", !.script = WorkflowScript,
                           !.path = <<"/query">>,
                           !.options = [method |-> "POST",
                                        headers |-> [NoHeaders EXCEPT
                                                       !["Content-Type"] = <<"application/json">>],
                                        body |-> QueryBody("What was the revenue for Q4?",
                                                           [present |-> TRUE, ids |-> <<DocId(1)>>])]]}
    \cup {[NoHelper EXCEPT !.name = "makeRequest", !.script = IntegrationScript, !.path = p] :
             p \in {<<"/health">>, <<"/documents">>, <<"/v2/documents">>}}
    \cup {[NoHelper EXCEPT !.name = "makeRequest", !.script = IntegrationScript,
                           !.path = <<"/query">>,
                           !.options = [NoOptions EXCEPT
                                          !.method = "POST",
                                          !.body = QueryBody("What documents are available?",
                                                             [present |-> TRUE, ids |-> << >>])]]}
    \cup {[NoHelper EXCEPT !.name = "makeRequest", !.script = IntegrationScript,
                           !.path = <<"/documents">>,
                           !.options = [NoOptions EXCEPT
                                          !.headers = [NoHeaders EXCEPT
                                                         !["Authorization"] = <<"Bearer ", BadKey>>]]]}
    \cup {[NoHelper EXCEPT !.name = "uploadDocument", !.script = WorkflowScript, !.path = p,
                           !.title = "Simple Test Document", !.filename = TextFile.name,
                           !.file = TextFile] :
             p \in {<<"/process">>, <<"/v2/process">>}}

RequestOf(h) ==
    IF h.name = "uploadDocument"
      THEN UploadDocument(h.path, h.title, h.filename, h.file.bytes, h.file.type)
      ELSE MakeRequest(h.script, h.path, h.options)

\* the responses that can end, whatever the request was
EndedReplies ==
    (CallerReplies \ {NetworkFailure})
    \cup {JsonFail(404, NotFoundDetail), JsonFail(500, "Internal Server Error"),
          [JsonFail(400, "") EXCEPT !.raw = "{\"detail\":\"\"}"],
          [from |-> "proxy", status |-> 500, statusText |-> StatusText(500), json |-> TRUE,
           detail |-> Absent, raw |-> PrettyUpstream, payload |-> NoPayload]}

\* the function is called: the request is sent and the promise is pending
MrSend ==
    /\ pc \in {"idle", "done"}
    /\ \E h \in MakeRequestCalls :
          /\ helper' = h
          /\ req' = RequestOf(h)
    /\ nreq' = 1
    /\ call' = NoCall
    /\ resp' = NoResp
    /\ outcome' = NoOutcome
    /\ hout' = NoOutcome
    /\ settles' = << >>
    /\ pc' = "awaiting"
    /\ UNCHANGED <<baseUrl, apiKey, docs, nextId, prev, callerVars, serverVars>>

\* the response ends: the 'end' handler runs
MrEnd ==
    /\ pc = "awaiting"
    /\ \E r \in EndedReplies :
          /\ resp' = r
          /\ settles' = settles \o OnEnd(r)
          /\ outcome' = PromiseOf(settles \o OnEnd(r))
    /\ pc' = "done"
    /\ UNCHANGED <<baseUrl, apiKey, docs, nextId, call, req, nreq, prev, helper, hout,
                   callerVars, serverVars>>

\* the request fails before a response has ended: the 'error' handler runs
MrError ==
    /\ pc = "awaiting"
    /\ resp' = NetworkFailure
    /\ settles' = Append(settles, OnError)
    /\ outcome' = PromiseOf(Append(settles, OnError))
    /\ pc' = "done"
    /\ UNCHANGED <<baseUrl, apiKey, docs, nextId, call, req, nreq, prev, helper, hout,
                   callerVars, serverVars>>

RequestNext == MrSend \/ MrEnd \/ MrError

RequestSpec == Init /\ [][RequestNext]_vars

\* ------------------------------------------------------- the construction
\* new NotebookBobuClient(baseUrl?, apiKey?) and createInboxZeroClient(apiKey?),
\* with process.env.INBOX_ZERO_API_KEY as it stands when the constructor runs.
KeyRequiredMessage ==
    "API key is required. Set INBOX_ZERO_API_KEY environment variable or pass it to constructor."
BaseUrlArgs == {Absent, "", "http://localhost:8000"}
ApiKeyArgs == {Absent, ""} \cup Tokens
EnvKeys == {Absent, "", "env-api-key"}

\* the constructor without its check of the key
ConstructUnchecked(b, k, e) ==
    [threw |-> FALSE, baseUrl |-> OrElse(b, DefaultBaseUrl),
     apiKey |-> OrElse(OrElse(k, e), "")]

\* the constructor: the fields it assigns, and whether it throws
Construct(b, k, e) ==
    LET key == OrElse(OrElse(k, e), "") IN
    [threw |-> key = "", baseUrl |-> OrElse(b, DefaultBaseUrl), apiKey |-> key]

CreateInboxZeroClient(k, e) == Construct(DefaultBaseUrl, OrElse(k, ValidKey), e)

\* instance c is what the construction returned; nothing is made when it threw
Constructed(h, o) ==
    /\ helper' = h
    /\ IF o.threw
         THEN /\ hout' = [kind |-> "threw", name |-> "Error",
                          message |-> <<KeyRequiredMessage>>, value |-> NoPayload]
              /\ UNCHANGED <<baseUrl, apiKey>>
         ELSE /\ hout' = [kind |-> "returned", name |-> Absent, message |-> << >>,
                          value |-> NoPayload]
              /\ baseUrl' = [baseUrl EXCEPT ![h.client] = o.baseUrl]
              /\ apiKey' = [apiKey EXCEPT ![h.client] = o.apiKey]

NewClient ==
    /\ \E c \in Clients, b \in BaseUrlArgs, k \in ApiKeyArgs, e \in EnvKeys :
          Constructed([NoHelper EXCEPT !.name = "constructor", !.client = c, !.baseUrl = b,
                                       !.apiKey = k, !.env = e],
                      Construct(b, k, e))
    /\ UNCHANGED <<docs, nextId, pc, call, req, resp, outcome, nreq, prev, settles,
                   callerVars, serverVars>>

CreateClient ==
    /\ \E c \in Clients, k \in ApiKeyArgs, e \in EnvKeys :
          Constructed([NoHelper EXCEPT !.name = "createInboxZeroClient", !.client = c,
                                       !.apiKey = k, !.env = e],
                      CreateInboxZeroClient(k, e))
    /\ UNCHANGED <<docs, nextId, pc, call, req, resp, outcome, nreq, prev, settles,
                   callerVars, serverVars>>

ConstructNext == NewClient \/ CreateClient

ConstructSpec == Init /\ [][ConstructNext]_vars

\* ------------------------------------------------------------- the server
\* server.ts: the exported handler awaits initPayload() and hands the request
\* to the app it returns.  A handler runs without interruption from one await
\* to the next; handlers of different requests interleave at their awaits.
\* An Express app is named after the request whose handler created it.

\* the handler is invoked: initPayload runs up to its return or its await
ServerArrive(h) ==
    /\ handlers[h].pc = "idle"
    /\ IF app /= NoApp
         THEN /\ handlers' = [handlers EXCEPT ![h] = [pc |-> "ready", expressApp |-> NoApp,
                                                      served |-> app]]
              /\ UNCHANGED inits
         ELSE /\ handlers' = [handlers EXCEPT ![h] = [pc |-> "initializing", expressApp |-> h,
                                                      served |-> NoApp]]
              /\ inits' = inits + 1
    /\ UNCHANGED <<app, clientVars, callerVars, helperVars>>

\* payload.init resolves: the routes are added, app is assigned and returned
ServerInitDone(h) ==
    /\ handlers[h].pc = "initializing"
    /\ app' = handlers[h].expressApp
    /\ handlers' = [handlers EXCEPT ![h].pc = "ready", ![h].served = handlers[h].expressApp]
    /\ UNCHANGED <<inits, clientVars, callerVars, helperVars>>

\* payload.init rejects: initPayload and the handler reject with it
ServerInitFail(h) ==
    /\ handlers[h].pc = "initializing"
    /\ handlers' = [handlers EXCEPT ![h].pc = "failed"]
    /\ UNCHANGED <<app, inits, clientVars, callerVars, helperVars>>

\* the handler resumes after its await: app(req, res)
ServerHandle(h) ==
    /\ handlers[h].pc = "ready"
    /\ handlers' = [handlers EXCEPT ![h].pc = "done"]
    /\ UNCHANGED <<app, inits, clientVars, callerVars, helperVars>>

ServerNext ==
    \E h \in Requests :
        ServerArrive(h) \/ ServerInitDone(h) \/ ServerInitFail(h) \/ ServerHandle(h)

ServerSpec == Init /\ [][ServerNext]_vars

\* ------------------------------------------------------------ properties
InFlight == pc \in {"awaiting", "settled", "done"}
Done == pc = "done"
Failed(r) == r.from \in {"service", "proxy"} /\ ~Ok(r)
\* the conditions of the error taxonomy, as a caller can recognise them in the message
InvalidKeyError(o) == Threw(o) /\ Includes(o.message, InvalidKeyDetail)
NotFoundError(o) == Threw(o) /\ Includes(o.message, NotFoundDetail)

\* C1: every public operation issues exactly one request per call, a failed
\* request is never sent again, and the operation returns or throws only
\* after the response or the network error of that one request has arrived.
C1_OneRequestPerCall ==
    /\ InFlight => nreq = 1
    /\ pc = "awaiting" => resp = NoResp /\ outcome = NoOutcome
    /\ outcome /= NoOutcome => Done /\ resp.from \in {"service", "proxy", "network"}
    /\ Done => outcome.kind \in {"returned", "threw"}

C1_Witness ==
    /\ Done /\ Threw(outcome) /\ nreq = 1
    /\ call.op = "query" /\ resp.from = "proxy"

\* C2: every request, JSON or multipart, carries Authorization: Bearer <token>
\* with the token the client instance was constructed with.
C2_BearerOnEveryRequest ==
    InFlight =>
        /\ req.headers["Authorization"] = <<"Bearer ", apiKey[call.client]>>
        /\ apiKey[call.client] = KeyOf(call.client)

C2_Witness ==
    /\ pc = "awaiting" /\ call.op = "processDocumentV2" /\ call.client = 2
    /\ req.headers["Authorization"] = <<"Bearer ", BadKey>>

\* C3 (as claimed): for every non-success response the error's message is the
\* server's detail when the body is JSON with a detail, and the raw response
\* body otherwise.
C3_DetailElseRawBody ==
    Done /\ Failed(resp) =>
        /\ Threw(outcome)
        /\ outcome.message = IF resp.json /\ resp.detail /= Absent
                                THEN <<resp.detail>> ELSE <<resp.raw>>

\* the error kind the taxonomy gives a status
TaxonomyKind(status) ==
    CASE status = 401 -> "AuthError"
      [] status \in {400, 422} -> "ValidationError"
      [] OTHER -> "ServiceError"

Sibling(op) == IF op = "processDocument" THEN "processDocumentV2" ELSE "processDocument"
UploadPaths == {"/process", "/v2/process"}

\* C11: processDocument and processDocumentV2 are contract-equivalent: given
\* the same file, filename and title they send the same request apart from the
\* endpoint path, and given the same response they return the same value.
C11_UploadsContractEquivalent ==
    call.op \in UploadOps /\ pc /= "idle" =>
        LET theirs == UploadFetch([call EXCEPT !.op = Sibling(call.op)]) IN
        /\ req.method = theirs.method
        /\ req.headers = theirs.headers
        /\ req.body = theirs.body
        /\ Len(req.url) = 3 /\ Len(theirs.url) = 3
        /\ req.url[1] = theirs.url[1] /\ req.url[2] = theirs.url[2]
        /\ {req.url[3], theirs.url[3]} = UploadPaths
        /\ Done /\ Ok(resp) /\ resp.json => Returned(outcome) /\ outcome.value = resp.payload
        /\ Done /\ ~(Ok(resp) /\ resp.json) => Threw(outcome)

C11_Witness ==
    /\ Done /\ call.op = "processDocumentV2" /\ prev.op = "processDocument"
    /\ Returned(outcome) /\ prev.result = "returned"
    /\ outcome.value.hasDocument /\ req.url[3] = "/v2/process"

NoDocumentsError(o) == Threw(o) /\ Includes(o.message, NoDocumentsDetail)
WellFormedQueryResult(o) ==
    Returned(o) /\ o.value.kind = "query" /\ o.value.answer /= Absent
EmptyQuery ==
    call.op = "query" /\ call.question = "" /\ call.documentIds = [present |-> TRUE, ids |-> << >>]

\* C13 (as claimed): query("", []) returns a well-formed query result or
\* fails with the benign no-documents condition; it never fails with an error
\* outside the taxonomy (an Error the client raised from a non-success
\* response), also when the network fails or the body is not JSON.
C13_EmptyQueryWithinTaxonomy ==
    Done /\ EmptyQuery =>
        \/ WellFormedQueryResult(outcome)
        \/ NoDocumentsError(outcome)
        \/ Threw(outcome) /\ outcome.name = "Error"

FileParts(parts) == {i \in DOMAIN parts : parts[i].name = "file"}
TitleParts(parts) == {i \in DOMAIN parts : parts[i].name = "title"}

\* C16 (as claimed): every upload sends a multipart body of exactly two
\* parts, a title text part and a file part, and the file part carries the
\* filename passed to the operation, the content type and the raw bytes, for
\* a Buffer as for a File.
C16_TwoPartsWithGivenFilename ==
    InFlight /\ call.op \in UploadOps =>
        LET parts == req.body.parts IN
        /\ req.body.kind = "multipart"
        /\ Len(parts) = 2
        /\ Cardinality(TitleParts(parts)) = 1
        /\ Cardinality(FileParts(parts)) = 1
        /\ \A i \in TitleParts(parts) : parts[i].content = call.title
        /\ \A i \in FileParts(parts) :
              /\ parts[i].filename = call.filename
              /\ parts[i].content = call.file.bytes
              /\ call.file.kind = "File" => parts[i].contentType = call.file.type

\* C17: listing the documents when none is stored returns an empty list as
\* a success; it does not fail.
C17_EmptyListIsSuccess ==
    /\ Done /\ call.op \in ListOps
    /\ resp.from = "service" /\ apiKey[call.client] = ValidKey
    /\ call.docsAt = {}
    => Returned(outcome) /\ outcome.value.kind = "list" /\ outcome.value.ids = {}

C17_Witness ==
    /\ Done /\ call.op = "getDocumentsV2" /\ nextId = 1 /\ docs = {}
    /\ Returned(outcome) /\ outcome.value.ids = {}

\* C18: a client instance holds its base URL and its credential and nothing
\* else; no operation changes either, so every request of an instance is
\* built from the values it was constructed with, whatever was called before
\* on this or another instance.
C18_InstanceStateFixed ==
    /\ baseUrl = [c \in Clients |-> DefaultBaseUrl]
    /\ apiKey = [c \in Clients |-> KeyOf(c)]
    /\ InFlight =>
          /\ req.url[1] = DefaultBaseUrl
          /\ req.headers["Authorization"] = <<"Bearer ", KeyOf(call.client)>>

C18_Witness ==
    /\ Done /\ call.client = 2 /\ call.op = "getDocument" /\ InvalidKeyError(outcome)
    /\ prev.op = "processDocumentV2" /\ prev.result = "returned" /\ prev.id = call.id
    /\ req.headers["Authorization"] = <<"Bearer ", BadKey>>

\* the requests sent for question (or attachment) i, and the reports made for it
SentFor(what, i) == {k \in DOMAIN trace : trace[k].what = what /\ trace[k].item = i}
ReportsFor(i) == {k \in DOMAIN reports : reports[k].item = i}
\* the function has left its loop of queries
QueriesOver ==
    \/ script = "testCompleteWorkflow" /\ spc \in {"tcw_chat", "tcw_delete"}
    \/ script = "testCompleteWorkflow" /\ spc = "done" /\ result = "true"
    \/ script = "testInboxZeroIntegration" /\ spc = "tizi_delete"
    \/ script = "testInboxZeroIntegration" /\ spc = "done" /\ result = "true"
    \/ script = "queryExample" /\ spc = "done"
BatchSize ==
    CASE script = "testCompleteWorkflow" -> NTestQueries
      [] script = "testInboxZeroIntegration" -> NQueries
      [] script = "queryExample" -> NQuestions
      [] script = "inboxZeroWorkflow" -> NAttachments
      [] OTHER -> 0

\* C6 (as claimed): when a caller issues its questions one after another, a
\* failed query does not keep a later one from being issued: every question of
\* the batch is sent exactly once and reported for that question.
C6_EveryQuestionSentOnce ==
    QueriesOver =>
        \A i \in 1..BatchSize :
            Cardinality(SentFor("query", i)) = 1 /\ Cardinality(ReportsFor(i)) = 1

\* C12 (as claimed): when a query finds no documents to search, the caller
\* recognises the no-documents condition and treats it as a benign empty
\* result: it is not reported as a failure and not thrown on to the end user.
C12_NoDocumentsIsBenign ==
    NoDocumentsError(lastQuery) =>
        /\ script = "runAllTests" =>
              \A k \in DOMAIN reports : trace[k].what = "testQuery" => reports[k].status = "passed"
        /\ script = "queryExample" => reports[Len(reports)].status /= "failure"
        /\ script = "inboxZeroWorkflow" => result /= "threw"

\* C20: runAllTests runs every test of its list exactly once, in list order,
\* whatever earlier tests returned; a test that does not return true counts as
\* failed and one that returns true as passed, passed + failed is the number
\* of tests, and the function returns true exactly when all of them passed.
C20_EveryTestRunOnce ==
    script = "runAllTests" =>
        /\ Len(trace) = Len(reports)
        /\ passed + failed = Len(reports)
        /\ passed = Cardinality({k \in DOMAIN reports : reports[k].status = "passed"})
        /\ \A k \in DOMAIN trace : trace[k].what = Tests[k] /\ trace[k].item = k
        /\ spc = "rat_test" => Len(trace) = idx - 1 /\ result = Absent
        /\ spc = "done" =>
              /\ Len(trace) = NTests
              /\ passed + failed = NTests
              /\ result \in {"true", "false"}
              /\ result = "true" <=> passed = NTests

C20_Witness ==
    /\ script = "runAllTests" /\ spc = "done" /\ result = "false"
    /\ reports[1].status = "failed" /\ reports[4].status = "passed"
    /\ reports[5].status = "failed" /\ passed = 3 /\ failed = 2

Placeholders == {Absent, "No summary available"}

\* C15 (as claimed): while a document's status is uploaded or processing its
\* derived fields are treated as absent: what getDocumentInsights hands its
\* caller reports no summary, no key points and no topics for it.
C15_NoInsightsBeforeCompleted ==
    /\ Done /\ helper.name = "getDocumentInsights" /\ Returned(outcome)
    /\ outcome.value.status \in {"uploaded", "processing"}
    => /\ Returned(hout)
       /\ hout.value.summary \in Placeholders
       /\ hout.value.keyPoints = << >>
       /\ hout.value.topics = << >>

\* C19: processEmailAttachment, getDocumentInsights and askQuestion throw
\* exactly the error the operation they await threw, with the server's
\* detail as its message; they never return in its place nor replace it.
C19_HelpersRethrow ==
    Done /\ helper.name /= Absent =>
        /\ Threw(outcome) => /\ Threw(hout)
                              /\ hout.name = outcome.name
                              /\ hout.message = outcome.message
        /\ Threw(hout) => Threw(outcome)
        /\ Failed(resp) /\ resp.json /\ resp.detail /= Absent =>
              Threw(hout) /\ hout.message = <<resp.detail>>

C19_Witness ==
    /\ Done /\ helper.name = "askQuestion" /\ resp.status = 404
    /\ Threw(hout) /\ hout.name = "Error" /\ hout.message = <<NoDocumentsDetail>>

\* C22: processEmailAttachment always uploads through /v2/process, never
\* /process, with the title 'Email: ' followed by the email subject, and
\* returns the upload result unchanged.
C22_EmailAttachmentThroughV2 ==
    InFlight /\ helper.name = "processEmailAttachment" =>
        /\ nreq = 1
        /\ req.method = "POST"
        /\ req.url = <<baseUrl[helper.client], "/api", "/v2/process">>
        /\ \A i \in TitleParts(req.body.parts) :
              req.body.parts[i].content = "Email: " \o helper.emailSubject
        /\ Cardinality(TitleParts(req.body.parts)) = 1
        /\ Done /\ Returned(outcome) => hout = outcome /\ hout.value = resp.payload

C22_Witness ==
    /\ Done /\ helper.name = "processEmailAttachment" /\ helper.emailSubject = "Q4 invoice"
    /\ req.url[3] = "/v2/process" /\ req.body.parts[2].content = "Email: Q4 invoice"
    /\ Returned(hout) /\ hout.value.hasDocument

\* C24 (as claimed): whenever askQuestion returns normally it returns a
\* defined answer string; a query response without an answer is never handed
\* to the caller as if it were one.
C24_AnswerAlwaysDefined ==
    Done /\ helper.name = "askQuestion" /\ Returned(hout) => hout.value.answer /= Absent

\* the non-empty elements of a sequence, in order
RECURSIVE Compact(_)
Compact(seq) ==
    IF seq = << >> THEN << >>
    ELSE IF Head(seq) = "" THEN Compact(Tail(seq))
    ELSE <<Head(seq)>> \o Compact(Tail(seq))

\* C30: whenever getDocumentInsights returns normally all four fields of its
\* result are defined: summary, topics and confidence default to 'No summary
\* available', the empty list and 'unknown', and keyPoints is the lines of
\* bullet_points in order without the empty ones (none when bullet_points is
\* absent or empty), so it never holds an empty string.
C30_InsightsAlwaysDefined ==
    Done /\ helper.name = "getDocumentInsights" /\ Returned(hout) =>
        LET doc == outcome.value
            v == hout.value IN
        /\ Returned(outcome)
        /\ v.summary = IF doc.summary \in {Absent, ""} THEN "No summary available"
                                                       ELSE doc.summary
        /\ v.confidence = IF doc.confidence \in {Absent, ""} THEN "unknown" ELSE doc.confidence
        /\ v.summary \notin {Absent, ""} /\ v.confidence \notin {Absent, ""}
        /\ v.topics = IF doc.topics.present THEN doc.topics.items ELSE << >>
        /\ v.keyPoints = Compact(doc.bullet_points.lines)
        /\ \A i \in DOMAIN v.keyPoints : v.keyPoints[i] /= ""

C30_Witness ==
    /\ Done /\ helper.name = "getDocumentInsights" /\ Returned(hout)
    /\ outcome.value.summary = Absent /\ hout.value.summary = "No summary available"
    /\ outcome.value.bullet_points.lines = <<"- revenue up", "", "- costs down">>
    /\ hout.value.keyPoints = <<"- revenue up", "- costs down">>
    /\ hout.value.topics = << >> /\ hout.value.confidence = "unknown"

\* the delete requests sent for document id
DeletesOf(id) == {k \in DOMAIN trace : trace[k].what = "delete" /\ trace[k].ids = <<id>>}

\* C25: in testCompleteWorkflow every execution whose upload returned a
\* non-empty document id sends exactly one delete for that id before the
\* function returns, on the success path and on every failure path; never
\* two, and never none.
C25_ExactlyOneDelete ==
    script = "testCompleteWorkflow" /\ documentId \notin {Absent, ""} =>
        /\ Cardinality(DeletesOf(documentId)) <= 1
        /\ spc = "done" => Cardinality(DeletesOf(documentId)) = 1
        /\ spc /= "done" => DeletesOf(documentId) = {} /\ result = Absent

C25_Witness ==
    /\ script = "testCompleteWorkflow" /\ spc = "done" /\ result = "false"
    /\ documentId = DocId(1) /\ Cardinality(DeletesOf(documentId)) = 1

\* C26 (as claimed): in testCompleteWorkflow every request about the uploaded
\* document (upload, query, delete on success, delete on failure) goes to
\* the API version of the upload: a document uploaded through v1 is never
\* deleted through v2.
C26_OneVersionThroughout ==
    script = "testCompleteWorkflow" =>
        \A k \in DOMAIN trace :
            trace[k].what \in {"upload", "query", "delete"} => trace[k].version = trace[1].version

\* the attachments reported as processed
Succeeded == {k \in DOMAIN reports : reports[k].status = "success"}

\* C27 (as claimed): in inboxZeroWorkflow, after the attachment loop
\* processedDocs holds exactly the documents of the attachments whose
\* processing succeeded, and the combined query names exactly those ids; it
\* is never widened to documents outside the workflow, also when every
\* attachment failed.
C27_QueryOverProcessedOnly ==
    script = "inboxZeroWorkflow" /\ spc \in {"izw_ask", "izw_chat", "done"} =>
        /\ Cardinality({k \in DOMAIN processedDocs : processedDocs[k] /= Absent})
              = Cardinality(Succeeded)
        /\ \A k \in DOMAIN trace :
              trace[k].what = "query" => trace[k].ids = processedDocs /\ trace[k].ids /= << >>

\* C23 (as claimed): initPayload calls payload.init at most once per
\* process for any number of requests, concurrent ones before the first
\* initialisation has finished included, and every request is served by the
\* same Express app.
C23_PayloadInitialisedOnce ==
    /\ inits <= 1
    /\ \A g, h \in Requests :
          handlers[g].pc = "done" /\ handlers[h].pc = "done"
              => handlers[g].served = handlers[h].served

\* C29 (as claimed): in processAttachmentExample every failure is caught
\* inside the function: neither a failed upload nor a failure of the deferred
\* getDocumentInsights call escapes as an unhandled error.
C29_NothingEscapesTheExample ==
    script = "processAttachmentExample" => unhandled = << >>

\* C28: constructing a NotebookBobuClient fails exactly when neither the
\* constructor argument nor INBOX_ZERO_API_KEY holds a non-empty key; every
\* instance has a non-empty apiKey; createInboxZeroClient never fails,
\* whatever its argument, the empty string included.
NonEmpty(x) == x /= Absent /\ x /= ""
C28_FailsExactlyWithoutKey ==
    /\ helper.name = "constructor"
          => (hout.kind = "threw" <=> ~ NonEmpty(helper.apiKey) /\ ~ NonEmpty(helper.env))
    /\ helper.name = "createInboxZeroClient" => hout.kind = "returned"
    /\ \A c \in Clients : NonEmpty(apiKey[c])
    /\ helper.name \in {"constructor", "createInboxZeroClient"} /\ hout.kind = "returned"
          => apiKey[helper.client] =
                IF NonEmpty(helper.apiKey) THEN helper.apiKey
                ELSE IF helper.name = "createInboxZeroClient" THEN ValidKey
                ELSE helper.env
\* the constructor has just failed for want of a key, next to an instance
\* that an earlier construction took from the environment
C28_Witness ==
    /\ helper.name = "constructor"
    /\ helper.apiKey = ""
    /\ helper.env = Absent
    /\ hout.kind = "threw"
    /\ hout.message = <<KeyRequiredMessage>>
    /\ \E c \in Clients : apiKey[c] = "env-api-key"

\* C21: for every response that has ended makeRequest (and uploadDocument)
\* calls exactly one of resolve and reject: resolve for a status in 200..299,
\* with the parsed JSON or else the raw body, and reject for every other
\* status, with 'HTTP <status>: ' followed by the detail, else the serialized
\* JSON, else the raw body.
Ended == pc = "done" /\ helper.name \in {"makeRequest", "uploadDocument"} /\ resp.from /= "network"
C21_SettlesOncePerResponse ==
    Ended =>
        /\ Len(settles) = 1
        /\ resp.status \in 200..299 => settles[1].fn = "resolve"
        /\ resp.status \notin 200..299 => settles[1].fn = "reject"
        /\ settles[1].fn = "resolve" =>
              IF resp.json THEN settles[1].value = resp.payload /\ settles[1].text = Absent
              ELSE settles[1].text = resp.raw
        /\ settles[1].fn = "reject" =>
              settles[1].message =
                 <<"HTTP ", ToString(resp.status), ": ",
                   IF resp.json /\ NonEmpty(resp.detail) THEN resp.detail
                   ELSE IF resp.json THEN Stringify(resp.raw)
                   ELSE resp.raw>>
        /\ outcome.kind = IF settles[1].fn = "resolve" THEN "returned" ELSE "threw"
\* a 500 whose JSON body has no detail has been rejected with the body as
\* JSON.stringify writes it
C21_Witness ==
    /\ Ended
    /\ helper.name = "makeRequest"
    /\ resp.status = 500
    /\ resp.raw = PrettyUpstream
    /\ settles = <<RejectWith("Error", <<"HTTP ", "500", ": ", "{\"error\":\"upstream\"}">>)>>

\* C7: in the attachment batch a failure is caught for its item and the
\* remaining attachments are still processed: every attachment is uploaded
\* once and reported once, as success or failure, and the loop always ends.
C7_EveryAttachmentProcessed ==
    script = "inboxZeroWorkflow" =>
        /\ spc = "izw_process" =>
              /\ idx \in 1..NAttachments
              /\ Len(reports) = idx - 1
              /\ result = Absent
        /\ spc \in {"izw_ask", "izw_chat", "done"} =>
              \A i \in 1..NAttachments :
                  /\ Cardinality(SentFor("upload", i)) = 1
                  /\ Cardinality(ReportsFor(i)) = 1
                  /\ \A k \in ReportsFor(i) : reports[k].status \in {"success", "failure"}

C7_Witness ==
    /\ script = "inboxZeroWorkflow" /\ spc = "izw_ask"
    /\ Len(reports) = NAttachments
    /\ reports[1].status = "failure" /\ reports[2].status = "success"
    /\ reports[3].status = "failure"

====
